---- MODULE Spec2Model ----
(***************************************************************************)
(* Model of ceilometer/compute/virt/ovirtga/vmchannels.py: the function    *)
(* NoIntrPoll and the class Listener (the VM channels listener thread).    *)
(*                                                                         *)
(* Two specifications live in this module:                                 *)
(*   Spec      the Listener: the loop thread, and the external threads     *)
(*             calling register / unregister / settimeout / start / stop;  *)
(*   SpecPoll  NoIntrPoll alone, called with every timeout of a small set. *)
(*                                                                         *)
(* Time is an integer clock.  In Spec one tick is an arbitrary amount of   *)
(* wall time (the loop may run several iterations within one tick); in     *)
(* SpecPoll one tick is one second, the unit of greenthread.sleep(1).      *)
(***************************************************************************)
EXTENDS Integers, Sequences, FiniteSets, TLC

VARIABLES
    \* ---- Listener fields (Listener.__init__) ----
    _quit,          \* self._quit
    _timeout,       \* self._timeout: a record, see NoneTimeout / SomeTimeout
    _channels,      \* self._channels: fileno -> channel record (connected)
    _unconnected,   \* self._unconnected: fileno -> channel record
    _add_channels,  \* self._add_channels: fileno -> channel record
    _del_channels,  \* self._del_channels: list of filenos
    _epoll,         \* self._epoll: fileno -> event mask registered
    \* ---- the loop thread ----
    pc,             \* position of the loop thread
    events,         \* the batch returned by NoIntrPoll, not yet dispatched
    todo,           \* keys of the items() snapshot a sweep still has to visit
    now,            \* the local `now` of the running sweep
    \* ---- environment ----
    clock,          \* time.time()
    fdtable,        \* OS descriptor table: fileno -> channel owning it, or Closed
    calls,          \* callbacks the loop thread invoked in its last step
    life,           \* what the caller did with each channel, see register
    \* ---- NoIntrPoll's frame (SpecPoll) ----
    np_pc,          \* position inside NoIntrPoll
    np_arg,         \* the timeout NoIntrPoll was called with
    np_timeout,     \* local `timeout`
    np_endtime,     \* local `endtime`: <<>> for None, <<t>> otherwise
    np_start,       \* time.time() when NoIntrPoll was called
    np_passed       \* the timeout handed to the last pollfun call

lvars == <<_quit, _timeout, _channels, _unconnected, _add_channels,
           _del_channels, _epoll, pc, events, todo, now, fdtable, calls,
           life>>
npvars == <<np_pc, np_arg, np_timeout, np_endtime, np_start, np_passed>>
vars == <<lvars, clock, npvars>>

----------------------------------------------------------------------------
\* Bounds of the model.

MaxFd == 2              \* descriptors are 1..MaxFd
MaxTime == 1            \* the clock of Spec runs 0..MaxTime
MaxEvents == 2          \* longest batch one readiness wait returns
MaxDel == 1             \* longest pending-delete list
MaxReconnects == 6      \* connect_cb returns false while reconnects is below this
MaxPollClock == 5       \* the clock of SpecPoll runs 0..MaxPollClock
MaxPollTimeout == 2     \* NoIntrPoll is called with timeouts -1..MaxPollTimeout
MaxBlock == 2           \* longest time pollfun(-1) blocks
MaxOversleep == 1       \* greenthread.sleep(1) takes 1..1+MaxOversleep

\* Program constant.
COOLDOWN_RECONNECT_THRESHOLD == 5

Fds == 1..MaxFd
Opaques == {"A", "B"}   \* the channels: one opaque per channel
MayFail == {"A"}        \* the channels whose connect_cb may return false
Closed == "closed"
TimeoutValues == {0, 1}   \* arguments of settimeout

EPOLLIN == "EPOLLIN"
EPOLLHUP == "EPOLLHUP"
EPOLLERR == "EPOLLERR"
\* event masks the readiness wait reports for a descriptor registered for
\* EPOLLIN (hang-up and error are always reported)
Masks == {{EPOLLIN}, {EPOLLERR}, {EPOLLIN, EPOLLHUP}}

NoneTimeout == [set |-> FALSE, val |-> 0]
SomeTimeout(s) == [set |-> TRUE, val |-> s]

----------------------------------------------------------------------------
\* Dictionaries.

Range(s) == {s[i] : i \in DOMAIN s}
Empty == [k \in {} |-> 0]
Pop(d, k) == [x \in DOMAIN d \ {k} |-> d[x]]
Put(d, k, v) == [x \in DOMAIN d \cup {k} |-> IF x = k THEN v ELSE d[x]]
Without(d, ks) == [x \in DOMAIN d \ ks |-> d[x]]
OpaquesOf(d) == {d[k].opaque : k \in DOMAIN d}

\* The record register() builds.  Keys the code reads through obj.get(k,
\* default) before ever writing them ('timeout_seen', 'reconnects',
\* 'cooldown') start at that default; 'cooldown_time' is NoTime until written.
NoTime == 0 - 1
NewChannel(o) ==
    [opaque |-> o, read_time |-> 0, timeout_seen |-> FALSE, reconnects |-> 0,
     cooldown |-> FALSE, cooldown_time |-> NoTime]

\* One callback invocation.
Call(cb, o, ret, fd) == [cb |-> cb, opaque |-> o, ret |-> ret, fd |-> fd]

\* Descriptors the OS can hand out: those not open.
FreeFds(tbl) == {f \in Fds : tbl[f] = Closed}
\* The descriptors of channel o are closed.
CloseOwned(tbl, o) == [f \in Fds |-> IF tbl[f] = o THEN Closed ELSE tbl[f]]

\* Python 2 ordering: every number is >= None.
GeTimeout(x, t) == IF t.set THEN x >= t.val ELSE TRUE

----------------------------------------------------------------------------
Init ==
    /\ _quit = FALSE
    /\ _timeout = NoneTimeout
    /\ _channels = Empty
    /\ _unconnected = Empty
    /\ _add_channels = Empty
    /\ _del_channels = <<>>
    /\ _epoll = Empty
    /\ pc = "new"
    /\ events = <<>>
    /\ todo = {}
    /\ now = 0
    /\ clock = 0
    /\ fdtable = [f \in Fds |-> Closed]
    /\ calls = <<>>
    /\ life = [o \in Opaques |-> "none"]
    /\ np_pc = "idle"
    /\ np_arg = 0
    /\ np_timeout = 0
    /\ np_endtime = <<>>
    /\ np_start = 0
    /\ np_passed = 0

----------------------------------------------------------------------------
\* External threads.

\* register(): create_cb runs on the calling thread and opens a descriptor
\* (if it raises, register raises too and nothing changes: no step).  Each
\* channel is registered once.
register(o) ==
    /\ life[o] = "none"
    /\ \E f \in FreeFds(fdtable) :
            /\ _add_channels' = Put(_add_channels, f, NewChannel(o))
            /\ fdtable' = [fdtable EXCEPT ![f] = o]
            /\ life' = [life EXCEPT ![o] = "pending"]
    /\ UNCHANGED <<calls, _quit, _timeout, _channels, _unconnected, _del_channels,
                   _epoll, pc, events, todo, now, clock, npvars>>

\* unregister(fileno).  The caller closes the descriptor it unregisters.
\* life: a channel whose descriptor is unregistered while still in the
\* pending-add map is "cancelled", one already promoted is "unregistered".
unregister(f) ==
    /\ fdtable[f] # Closed
    /\ Len(_del_channels) < MaxDel
    /\ _del_channels' = Append(_del_channels, f)
    /\ fdtable' = [fdtable EXCEPT ![f] = Closed]
    /\ life' = [o \in Opaques |->
                  IF f \in DOMAIN _add_channels /\ _add_channels[f].opaque = o
                     /\ life[o] = "pending"
                  THEN "cancelled"
                  ELSE IF \/ f \in DOMAIN _unconnected /\ _unconnected[f].opaque = o
                          \/ f \in DOMAIN _channels /\ _channels[f].opaque = o
                  THEN "unregistered"
                  ELSE life[o]]
    /\ UNCHANGED <<calls, _quit, _timeout, _channels, _unconnected, _add_channels,
                   _epoll, pc, events, todo, now, clock, npvars>>

settimeout(s) ==
    /\ _timeout' = SomeTimeout(s)
    /\ UNCHANGED <<calls, _quit, _channels, _unconnected, _add_channels, _del_channels,
                   _epoll, pc, events, todo, now, fdtable, life,
                   clock, npvars>>

start ==
    /\ pc = "new"
    /\ pc' = "run"
    /\ UNCHANGED <<calls, _quit, _timeout, _channels, _unconnected, _add_channels,
                   _del_channels, _epoll, events, todo, now, fdtable, life, clock, npvars>>

\* stop(), on a listener that was started.
stop ==
    /\ pc # "new"
    /\ _quit' = TRUE
    /\ UNCHANGED <<calls, _timeout, _channels, _unconnected, _add_channels,
                   _del_channels, _epoll, pc, events, todo, now, fdtable, life, clock, npvars>>

Tick ==
    /\ clock < MaxTime
    /\ clock' = clock + 1
    /\ UNCHANGED <<calls, _quit, _timeout, _channels, _unconnected, _add_channels,
                   _del_channels, _epoll, pc, events, todo, now, fdtable, life, npvars>>

----------------------------------------------------------------------------
\* The loop thread: run().

run_begin ==
    /\ pc = "run"
    /\ _quit' = FALSE
    /\ pc' = "loop"
    /\ calls' = <<>>
    /\ UNCHANGED <<_timeout, _channels, _unconnected, _add_channels,
                   _del_channels, _epoll, events, todo, now, fdtable, life, clock, npvars>>

\* `while not self._quit`
loop_test ==
    /\ pc = "loop"
    /\ pc' = IF _quit THEN "ended" ELSE "wait"
    /\ calls' = <<>>
    /\ UNCHANGED <<_quit, _timeout, _channels, _unconnected, _add_channels,
                   _del_channels, _epoll, events, todo, now, fdtable, life, clock, npvars>>

\* What one readiness wait can report: at most one entry per registered
\* descriptor, in any order.
Batches(ep) ==
    LET Ev == (DOMAIN ep) \X Masks
    IN {b \in UNION {[1..n -> Ev] : n \in 0..MaxEvents} :
          \A i, j \in DOMAIN b : i # j => b[i][1] # b[j][1]}

\* events = NoIntrPoll(self._epoll.poll, 1): a batch, or an error other than
\* EINTR, which run() catches at its outermost level and ends the thread.
wait_for_events ==
    /\ pc = "wait"
    /\ \/ \E b \in Batches(_epoll) : events' = b /\ pc' = "dispatch"
       \/ events' = <<>> /\ pc' = "ended"
    /\ calls' = <<>>
    /\ UNCHANGED <<_quit, _timeout, _channels, _unconnected, _add_channels,
                   _del_channels, _epoll, todo, now, fdtable, life, clock, npvars>>

\* Mutant of _prepare_reconnect: the record is stored under the old fileno.
_prepare_reconnect_OldKey(fileno, chans, before) ==
    LET obj == [chans[fileno] EXCEPT !.timeout_seen = FALSE]
        tbl == CloseOwned(fdtable, obj.opaque)
    IN /\ _channels' = Pop(chans, fileno)
       /\ \/ \E g \in FreeFds(tbl) :
               /\ _unconnected' = Put(_unconnected, fileno, obj)
               /\ fdtable' = [tbl EXCEPT ![g] = obj.opaque]
               /\ calls' = Append(before, Call("create_cb", obj.opaque, "return", g))
          \/ /\ _unconnected' = _unconnected
             /\ fdtable' = tbl
             /\ calls' = Append(before, Call("create_cb", obj.opaque, "raise", 0))

\* _prepare_reconnect(fileno), entered with self._channels = chans after the
\* callbacks in `before` ran.  create_cb replaces the channel's descriptor:
\* the old one is closed and any free descriptor comes back, or it raises.
_prepare_reconnect(fileno, chans, before) ==
    LET obj == [chans[fileno] EXCEPT !.timeout_seen = FALSE]
        tbl == CloseOwned(fdtable, obj.opaque)
    IN /\ _channels' = Pop(chans, fileno)
       /\ \/ \E g \in FreeFds(tbl) :
               /\ _unconnected' = Put(_unconnected, g, obj)
               /\ fdtable' = [tbl EXCEPT ![g] = obj.opaque]
               /\ calls' = Append(before, Call("create_cb", obj.opaque, "return", g))
          \/ /\ _unconnected' = _unconnected
             /\ fdtable' = tbl
             /\ calls' = Append(before, Call("create_cb", obj.opaque, "raise", 0))

\* The channel record after the two resets that precede read_cb.
ReadReset(obj) == [obj EXCEPT !.timeout_seen = FALSE, !.reconnects = 0]

\* Mutant of Lookup: the unconnected channels are looked up as well.
Lookup_AnySet(fileno) ==
    IF fileno \in DOMAIN _channels THEN <<_channels[fileno]>>
    ELSE IF fileno \in DOMAIN _unconnected THEN <<_unconnected[fileno]>>
    ELSE <<>>

\* self._channels.get(fileno, None): <<>> for None
Lookup(fileno) ==
    IF fileno \in DOMAIN _channels THEN <<_channels[fileno]>> ELSE <<>>

\* _handle_event(fileno, event) for the first event of the batch.
_handle_event ==
    /\ pc = "dispatch"
    /\ events # <<>>
    /\ LET fileno == Head(events)[1]
           event == Head(events)[2]
       IN IF event \cap {EPOLLHUP, EPOLLERR} # {}
          THEN IF fileno \in DOMAIN _channels
               THEN _prepare_reconnect(fileno, _channels, <<>>)
               ELSE /\ calls' = <<>>
                    /\ UNCHANGED <<_channels, _unconnected, fdtable>>
          ELSE IF EPOLLIN \in event /\ Lookup(fileno) # <<>>
          THEN LET obj == ReadReset(Lookup(fileno)[1])
                   o == obj.opaque
               IN \/ /\ _channels' = Put(_channels, fileno,
                                         [obj EXCEPT !.read_time = clock])
                     /\ calls' = <<Call("read_cb", o, "true", 0)>>
                     /\ UNCHANGED <<_unconnected, fdtable>>
                  \/ _prepare_reconnect(fileno, Put(_channels, fileno, obj),
                                        <<Call("read_cb", o, "false", 0)>>)
                  \/ /\ _channels' = Put(_channels, fileno, obj)
                     /\ calls' = <<Call("read_cb", o, "raise", 0)>>
                     /\ UNCHANGED <<_unconnected, fdtable>>
          ELSE /\ calls' = <<>>
               /\ UNCHANGED <<_channels, _unconnected, fdtable>>
    /\ events' = Tail(events)
    /\ UNCHANGED <<_quit, _timeout, _add_channels, _del_channels, _epoll, pc,
                   todo, now, life, clock, npvars>>

\* Mutant of _do_add_channels: the pending-add entries are cleared without
\* being stored.
_do_add_channels_Lost(unc, add) == unc

\* _do_add_channels: the unconnected dict after every pending-add entry was
\* stored into it.
_do_add_channels(unc, add) ==
    [k \in DOMAIN unc \cup DOMAIN add |-> IF k \in DOMAIN add THEN add[k] ELSE unc[k]]

\* _do_del_channels, for one of the dicts it pops from.
_do_del_channels(d, del) == Without(d, Range(del))

\* Mutant of UpdatedUnconnected: the deletions are applied before the adds.
UpdatedUnconnected_DelFirst(unc, add, del) ==
    _do_add_channels(_do_del_channels(unc, del), add)

\* self._unconnected after _do_add_channels(), then _do_del_channels().
UpdatedUnconnected(unc, add, del) ==
    _do_del_channels(_do_add_channels(unc, add), del)

\* The `else` of the for loop of _wait_for_events starts here: it runs when
\* the batch is exhausted, empty or not.  _update_channels holds the lock for
\* both halves.
_update_channels ==
    /\ pc = "dispatch"
    /\ events = <<>>
    /\ _unconnected' = UpdatedUnconnected(_unconnected, _add_channels,
                                          _del_channels)
    /\ _channels' = _do_del_channels(_channels, _del_channels)
    /\ _add_channels' = Empty
    /\ _del_channels' = <<>>
    /\ life' = [o \in Opaques |->
                  IF life[o] = "pending" /\ o \in OpaquesOf(_add_channels)
                  THEN IF \E k \in DOMAIN _add_channels \ Range(_del_channels) :
                             _add_channels[k].opaque = o
                       THEN "promoted"
                       ELSE "removed"
                  ELSE life[o]]
    /\ pc' = "timeouts"
    /\ calls' = <<>>
    /\ UNCHANGED <<_quit, _timeout, _epoll, events, todo, now, fdtable, clock, npvars>>

\* Mutant of TimeoutEnabled: a zero timeout enables the sweep as well.
TimeoutEnabled_NonNegative(t) == t.set /\ t.val >= 0

\* `if (self._timeout is not None) and (self._timeout > 0)`
TimeoutEnabled(t) == t.set /\ t.val > 0

\* _handle_timeouts: now = time.time() and the items() snapshot.
begin_timeouts ==
    /\ pc = "timeouts"
    /\ IF TimeoutEnabled(_timeout)
       THEN now' = clock /\ todo' = DOMAIN _channels /\ pc' = "tsweep"
       ELSE now' = now /\ todo' = todo /\ pc' = "unconnected"
    /\ calls' = <<>>
    /\ UNCHANGED <<_quit, _timeout, _channels, _unconnected, _add_channels,
                   _del_channels, _epoll, events, fdtable, life,
                   clock, npvars>>

\* The timeout test of one channel.
TimedOut(obj, n, t) == GeTimeout(n - obj.read_time, t)

\* Mutant of _handle_timeouts: no try/except around timeout_cb, an exception
\* reaches the handler of run() and the thread ends.
_handle_timeouts_Abort ==
    /\ pc = "tsweep"
    /\ \E fileno \in todo :
         LET obj == _channels[fileno]
             seen == [obj EXCEPT !.timeout_seen = TRUE]
         IN /\ todo' = todo \ {fileno}
            /\ IF TimedOut(obj, now, _timeout)
               THEN \/ /\ _channels' = Put(_channels, fileno,
                                           [seen EXCEPT !.read_time = now])
                       /\ calls' = <<Call("timeout_cb", obj.opaque, "return", 0)>>
                       /\ pc' = pc
                    \/ /\ _channels' = Put(_channels, fileno, seen)
                       /\ calls' = <<Call("timeout_cb", obj.opaque, "raise", 0)>>
                       /\ pc' = "ended"
               ELSE /\ _channels' = _channels
                    /\ calls' = <<>>
                    /\ pc' = pc
    /\ UNCHANGED <<_quit, _timeout, _unconnected, _add_channels, _del_channels,
                   _epoll, events, now, fdtable, life, clock,
                   npvars>>

\* One pass of the body of the for loop of _handle_timeouts.
_handle_timeouts ==
    /\ pc = "tsweep"
    /\ \E fileno \in todo :
         LET obj == _channels[fileno]
             seen == [obj EXCEPT !.timeout_seen = TRUE]
         IN /\ todo' = todo \ {fileno}
            /\ IF TimedOut(obj, now, _timeout)
               THEN \/ /\ _channels' = Put(_channels, fileno,
                                           [seen EXCEPT !.read_time = now])
                       /\ calls' = <<Call("timeout_cb", obj.opaque, "return", 0)>>
                    \/ /\ _channels' = Put(_channels, fileno, seen)
                       /\ calls' = <<Call("timeout_cb", obj.opaque, "raise", 0)>>
               ELSE /\ _channels' = _channels
                    /\ calls' = <<>>
    /\ UNCHANGED <<_quit, _timeout, _unconnected, _add_channels, _del_channels,
                   _epoll, pc, events, now, fdtable, life, clock,
                   npvars>>

\* _handle_unconnected: now = time.time() and the items() snapshot; entered
\* when _handle_timeouts has finished.
begin_unconnected ==
    /\ \/ pc = "unconnected"
       \/ pc = "tsweep" /\ todo = {}
    /\ now' = clock
    /\ todo' = DOMAIN _unconnected
    /\ pc' = "usweep"
    /\ calls' = <<>>
    /\ UNCHANGED <<_quit, _timeout, _channels, _unconnected, _add_channels,
                   _del_channels, _epoll, events, fdtable, life,
                   clock, npvars>>

\* Mutant of CooldownOver: the cooldown is not waited for.
CooldownOver_Always(obj, n, t) == TRUE

\* The cooldown of obj is over at sweep time n.
CooldownOver(obj, n, t) == GeTimeout(n - obj.cooldown_time, t)

\* Mutant of ConnectFailed: the threshold is compared with > instead of >=.
ConnectFailed_OffByOne(obj, t) ==
    LET r == [obj EXCEPT !.reconnects = obj.reconnects + 1]
    IN IF r.reconnects > COOLDOWN_RECONNECT_THRESHOLD
       THEN [r EXCEPT !.cooldown_time = t, !.cooldown = TRUE]
       ELSE r

\* The record after a connect_cb that returned false, at time t.
ConnectFailed(obj, t) ==
    LET r == [obj EXCEPT !.reconnects = obj.reconnects + 1]
    IN IF r.reconnects >= COOLDOWN_RECONNECT_THRESHOLD
       THEN [r EXCEPT !.cooldown_time = t, !.cooldown = TRUE]
       ELSE r

\* The record after a connect_cb that returned true, at time t.
ConnectSucceeded(obj, t) == [obj EXCEPT !.read_time = t]

\* Mutant of DelUnconnected: the promoted channel is not removed.
DelUnconnected_Keep(unc, fileno) == unc

\* `del self._unconnected[fileno]` of a successful connect
DelUnconnected(unc, fileno) == Pop(unc, fileno)

\* Mutant of EpollRegister: the descriptor is not registered.
EpollRegister_Skip(ep, fileno) == ep

\* self._epoll.register(fileno, select.EPOLLIN)
EpollRegister(ep, fileno) == Put(ep, fileno, {EPOLLIN})

\* One pass of the body of the for loop of _handle_unconnected.
_handle_unconnected ==
    /\ pc = "usweep"
    /\ \E fileno \in todo :
         LET obj == _unconnected[fileno]
             try == [obj EXCEPT !.cooldown = FALSE]
         IN /\ todo' = todo \ {fileno}
            /\ IF obj.cooldown /\ ~CooldownOver(obj, now, _timeout)
               THEN /\ calls' = <<>>
                    /\ UNCHANGED <<_unconnected, _channels, _epoll>>
               ELSE \/ /\ calls' = <<Call("connect_cb", obj.opaque, "raise", 0)>>
                       /\ _unconnected' = Put(_unconnected, fileno, try)
                       /\ UNCHANGED <<_channels, _epoll>>
                    \/ /\ calls' = <<Call("connect_cb", obj.opaque, "true", 0)>>
                       /\ _unconnected' = DelUnconnected(_unconnected, fileno)
                       /\ _channels' = Put(_channels, fileno,
                                           ConnectSucceeded(try, clock))
                       /\ _epoll' = EpollRegister(_epoll, fileno)
                    \/ /\ obj.opaque \in MayFail
                       /\ obj.reconnects < MaxReconnects
                       /\ calls' = <<Call("connect_cb", obj.opaque, "false", 0)>>
                       /\ _unconnected' = Put(_unconnected, fileno,
                                              ConnectFailed(try, clock))
                       /\ UNCHANGED <<_channels, _epoll>>
    /\ UNCHANGED <<_quit, _timeout, _add_channels, _del_channels, pc, events,
                   now, fdtable, life, clock, npvars>>

\* _handle_unconnected and _wait_for_events return; greenthread.sleep(1);
\* back to the loop test.
end_iteration ==
    /\ pc = "usweep"
    /\ todo = {}
    /\ pc' = "loop"
    /\ now' = 0
    /\ calls' = <<>>
    /\ UNCHANGED <<_quit, _timeout, _channels, _unconnected, _add_channels,
                   _del_channels, _epoll, events, todo, fdtable, life, clock, npvars>>

Next ==
    \/ \E o \in Opaques : register(o)
    \/ \E f \in Fds : unregister(f)
    \/ \E s \in TimeoutValues : settimeout(s)
    \/ start
    \/ stop
    \/ Tick
    \/ run_begin
    \/ loop_test
    \/ wait_for_events
    \/ _handle_event
    \/ _update_channels
    \/ begin_timeouts
    \/ _handle_timeouts
    \/ begin_unconnected
    \/ _handle_unconnected
    \/ end_iteration

Spec == Init /\ [][Next]_vars

----------------------------------------------------------------------------
\* NoIntrPoll(pollfun, timeout), one tick of the clock being one second.

PollTimeouts == (0 - 1)..MaxPollTimeout
Max0(x) == IF x > 0 THEN x ELSE 0

\* How long pollfun(t) can take: at most t, or any time when t < 0.
PollDurations(t) == IF t < 0 THEN 0..MaxBlock ELSE 0..t

\* `endtime = None if timeout < 0 else time.time() + timeout`
EndTime(t, c) == IF t < 0 THEN <<>> ELSE <<c + t>>

\* Mutant of Remaining: without a deadline the retry polls with timeout 0.
Remaining_Zero(endtime, t, c) ==
    IF endtime # <<>> THEN Max0(endtime[1] - c) ELSE 0

\* `if endtime is not None: timeout = max(0, endtime - time.time())`
Remaining(endtime, t, c) == IF endtime # <<>> THEN Max0(endtime[1] - c) ELSE t

NoIntrPoll_call ==
    /\ np_pc = "idle"
    /\ \E t \in PollTimeouts :
         /\ np_arg' = t
         /\ np_timeout' = t
         /\ np_endtime' = EndTime(t, clock)
    /\ np_start' = clock
    /\ np_pc' = "poll"
    /\ UNCHANGED <<lvars, clock, np_passed>>

\* `return pollfun(timeout)`
pollfun_returns ==
    /\ np_pc = "poll"
    /\ \E d \in PollDurations(np_timeout) :
         /\ clock + d <= MaxPollClock
         /\ clock' = clock + d
    /\ np_passed' = np_timeout
    /\ np_pc' = "returned"
    /\ UNCHANGED <<lvars, np_arg, np_timeout, np_endtime, np_start>>

\* pollfun raises EINTR: the except clause swallows it and the timeout is
\* computed again.
pollfun_interrupted ==
    /\ np_pc = "poll"
    /\ \E d \in PollDurations(np_timeout) :
         /\ clock + d <= MaxPollClock
         /\ clock' = clock + d
         /\ np_timeout' = Remaining(np_endtime, np_timeout, clock + d)
    /\ np_passed' = np_timeout
    /\ np_pc' = "sleep"
    /\ UNCHANGED <<lvars, np_arg, np_endtime, np_start>>

\* pollfun raises another error: `raise`
pollfun_fails ==
    /\ np_pc = "poll"
    /\ \E d \in PollDurations(np_timeout) :
         /\ clock + d <= MaxPollClock
         /\ clock' = clock + d
    /\ np_passed' = np_timeout
    /\ np_pc' = "raised"
    /\ UNCHANGED <<lvars, np_arg, np_timeout, np_endtime, np_start>>

\* greenthread.sleep(1), then the next turn of `while True`
green_sleep ==
    /\ np_pc = "sleep"
    /\ \E d \in 1..(1 + MaxOversleep) :
         /\ clock + d <= MaxPollClock
         /\ clock' = clock + d
    /\ np_pc' = "poll"
    /\ UNCHANGED <<lvars, np_arg, np_timeout, np_endtime, np_start, np_passed>>

\* The caller takes the result; NoIntrPoll can be called again.
NoIntrPoll_done ==
    /\ np_pc \in {"returned", "raised"}
    /\ np_pc' = "idle"
    /\ UNCHANGED <<lvars, clock, np_arg, np_timeout, np_endtime, np_start,
                   np_passed>>

NextPoll ==
    \/ NoIntrPoll_call
    \/ pollfun_returns
    \/ pollfun_interrupted
    \/ pollfun_fails
    \/ green_sleep
    \/ NoIntrPoll_done

SpecPoll == Init /\ [][NextPoll]_vars

----------------------------------------------------------------------------
\* Steps of the loop thread, as seen from outside.

\* _handle_event runs for the first event of the batch.
DispatchStep == pc = "dispatch" /\ events # <<>> /\ events' = Tail(events)
\* The connect sweep visits the unconnected channel keyed f.
ConnectVisit(f) == pc = "usweep" /\ f \in todo /\ todo' = todo \ {f}
\* The loop thread called exactly this callback in the step.
Called(cb, o, ret) == calls' = <<Call(cb, o, ret, 0)>>
\* The timeout sweep visits the connected channel keyed f.
TimeoutVisit(f) == pc = "tsweep" /\ f \in todo /\ todo' = todo \ {f}
\* _update_channels runs: the pending mutations are applied.
UpdateStep == pc = "dispatch" /\ events = <<>> /\ pc' = "timeouts"
\* A step of the loop thread.
LoopStep == pc' # pc \/ events' # events \/ todo' # todo

----------------------------------------------------------------------------
\* C1: Registry disjointness.  In every state, a descriptor with no
\* unregister request waiting to be applied is a key of at most one of
\* _channels, _unconnected and _add_channels; so right after
\* _update_channels (and until the next unregister call) the three key sets
\* are pairwise disjoint.
C1_RegistryDisjoint ==
    \A f \in Fds \ Range(_del_channels) :
        /\ ~(f \in DOMAIN _channels /\ f \in DOMAIN _unconnected)
        /\ ~(f \in DOMAIN _channels /\ f \in DOMAIN _add_channels)
        /\ ~(f \in DOMAIN _unconnected /\ f \in DOMAIN _add_channels)

\* Right after _update_channels, with a connected and an unconnected channel.
C1_Witness ==
    /\ pc = "timeouts"
    /\ _channels # Empty
    /\ _unconnected # Empty
    /\ _del_channels = <<>>

\* C2: Channel conservation.  A channel that was promoted out of pending-add
\* and whose descriptor was never passed to unregister is in the unconnected
\* or the connected set, whatever its callbacks return or raise.
C2_ChannelConservation ==
    \A o \in Opaques :
        life[o] = "promoted" =>
            o \in OpaquesOf(_unconnected) \cup OpaquesOf(_channels)

\* C3: Cooldown protocol.  A channel is in cooldown only with at least 5
\* failed connects counted; a connect_cb returning false adds one to
\* reconnects, and puts the channel in cooldown at the current time exactly
\* when the count has reached 5; the counter of an unconnected channel never
\* goes down; connect_cb of a channel in cooldown is invoked only when the
\* configured timeout has elapsed since cooldown_time, and then exactly once
\* in the sweep; a further failure puts it back in cooldown.
C3_CooldownProtocol ==
    /\ [](\A f \in DOMAIN _unconnected :
            _unconnected[f].cooldown =>
                /\ _unconnected[f].reconnects >= COOLDOWN_RECONNECT_THRESHOLD
                /\ _unconnected[f].cooldown_time # NoTime)
    /\ [][\A f \in Fds : ConnectVisit(f) =>
            LET obj == _unconnected[f]
                over == ~_timeout.set \/ now - obj.cooldown_time >= _timeout.val
            IN /\ (obj.cooldown /\ calls' # <<>> /\ _timeout.set)
                    => clock - obj.cooldown_time >= _timeout.val
               /\ (obj.cooldown /\ ~over)
                    => calls' = <<>> /\ _unconnected' = _unconnected
               /\ (obj.cooldown /\ over)
                    => /\ Len(calls') = 1
                       /\ calls'[1].cb = "connect_cb"
                       /\ calls'[1].opaque = obj.opaque
               /\ Called("connect_cb", obj.opaque, "false")
                    => /\ f \in DOMAIN _unconnected'
                       /\ _unconnected'[f].reconnects = obj.reconnects + 1
                       /\ IF obj.reconnects + 1 >= COOLDOWN_RECONNECT_THRESHOLD
                          THEN /\ _unconnected'[f].cooldown
                               /\ _unconnected'[f].cooldown_time = clock
                          ELSE ~_unconnected'[f].cooldown]_vars
    /\ [][\A f \in DOMAIN _unconnected :
            (f \in DOMAIN _unconnected'
             /\ _unconnected'[f].opaque = _unconnected[f].opaque)
            => _unconnected'[f].reconnects >= _unconnected[f].reconnects]_vars

\* A channel back in cooldown after the one attempt that followed a cooldown.
C3_Witness ==
    \E f \in DOMAIN _unconnected :
        /\ _unconnected[f].cooldown
        /\ _unconnected[f].reconnects = COOLDOWN_RECONNECT_THRESHOLD + 1
        /\ _unconnected[f].cooldown_time = 1
        /\ _timeout = SomeTimeout(1)
        /\ calls = <<Call("connect_cb", _unconnected[f].opaque, "false", 0)>>

\* C4: Reconnect on unhealthy read.  When a readable event is dispatched for
\* a connected channel and read_cb returns false and create_cb does not
\* raise, then within that dispatch, hence before the next connect sweep, the
\* descriptor leaves the connected set, create_cb is invoked exactly once,
\* and the same record (counters reset) is in the unconnected set under the
\* descriptor create_cb returned.
C4_ReconnectOnUnhealthyRead ==
    [][(/\ DispatchStep
        /\ calls' # <<>>
        /\ calls'[1].cb = "read_cb"
        /\ calls'[1].ret = "false"
        /\ calls'[Len(calls')].ret = "return")
       => LET f == Head(events)[1]
              g == calls'[2].fd
          IN /\ f \in DOMAIN _channels
             /\ f \notin DOMAIN _channels'
             /\ Len(calls') = 2
             /\ calls'[2].cb = "create_cb"
             /\ calls'[2].opaque = _channels[f].opaque
             /\ calls'[1].opaque = _channels[f].opaque
             /\ g \in DOMAIN _unconnected'
             /\ _unconnected'[g] = [_channels[f] EXCEPT !.timeout_seen = FALSE,
                                                        !.reconnects = 0]
             /\ pc' = "dispatch"]_vars

\* read_cb returned false and the channel is unconnected under another
\* descriptor than the one the event came for.
C4_Witness ==
    /\ pc = "dispatch"
    /\ Len(calls) = 2
    /\ calls[1].cb = "read_cb"
    /\ calls[1].ret = "false"
    /\ calls[2].ret = "return"
    /\ calls[2].fd \in DOMAIN _unconnected
    /\ calls[2].fd \notin DOMAIN _epoll
    /\ _unconnected[calls[2].fd].opaque = calls[1].opaque

\* C5: Register then unregister before promotion.  A channel whose
\* descriptor was unregistered while the channel was still in the pending-add
\* map is in neither the unconnected nor the connected set in any state the
\* loop thread can observe, and the loop thread invokes none of its callbacks.
C5_CancelledNeverSeen ==
    \A o \in Opaques :
        life[o] = "cancelled" =>
            /\ o \notin OpaquesOf(_unconnected) \cup OpaquesOf(_channels)
            /\ \A i \in DOMAIN calls : calls[i].opaque # o

\* The loop thread sweeps after it applied the register and the unregister.
C5_Witness ==
    \E o \in Opaques :
        /\ life[o] = "cancelled"
        /\ pc = "usweep"
        /\ _add_channels = Empty
        /\ _del_channels = <<>>

\* C6: Exception from read_cb triggers reconnect.  When read_cb raises on a
\* readable event the channel leaves the connected set and is re-created
\* through create_cb into the unconnected set under the new descriptor, the
\* loop thread goes on, and every other connected channel stays connected; a
\* channel whose read_cb returns true stays connected.
C6_ReadExceptionReconnects ==
    [][(DispatchStep /\ calls' # <<>> /\ calls'[1].cb = "read_cb")
       => LET f == Head(events)[1]
          IN /\ pc' = "dispatch"
             /\ \A g \in DOMAIN _channels \ {f} : g \in DOMAIN _channels'
             /\ calls'[1].ret = "true" => f \in DOMAIN _channels'
             /\ calls'[1].ret = "raise" =>
                    /\ f \notin DOMAIN _channels'
                    /\ Len(calls') = 2
                    /\ calls'[2].cb = "create_cb"
                    /\ calls'[2].ret = "return" =>
                           /\ calls'[2].fd \in DOMAIN _unconnected'
                           /\ _unconnected'[calls'[2].fd].opaque
                                  = _channels[f].opaque]_vars

\* C7: Stale events are no-ops.  Dispatching an event of any mask for a
\* descriptor that is not a key of the connected set invokes no callback,
\* does not end the loop thread, and leaves the connected set, the
\* unconnected set, the pending queues and the readiness registration (hence
\* every channel record) unchanged.
C7_StaleEventNoOp ==
    [][(DispatchStep /\ Head(events)[1] \notin DOMAIN _channels)
       => /\ calls' = <<>>
          /\ pc' = "dispatch"
          /\ UNCHANGED <<_channels, _unconnected, _add_channels,
                         _del_channels, _epoll, fdtable>>]_vars

\* A readable event was just dispatched for the descriptor of an unconnected
\* channel; nothing was called.
C7_Witness ==
    /\ pc = "dispatch"
    /\ events = <<>>
    /\ calls = <<>>
    /\ \E f \in DOMAIN _unconnected : f \in DOMAIN _epoll /\ f \notin DOMAIN _channels
    /\ _channels # Empty

\* C8: Bounded wait under interruptions.  For NoIntrPoll called with a
\* timeout T >= 0: after every interruption the timeout for the retry is
\* max(0, deadline - now) with deadline = call time + T, and when NoIntrPoll
\* returns no more than T has elapsed since it was called.
C8_BoundedWait ==
    /\ (np_pc = "sleep" /\ np_arg >= 0)
          => np_timeout = Max0(np_start + np_arg - clock)
    /\ (np_pc = "returned" /\ np_arg >= 0)
          => clock - np_start <= np_arg

\* C9: Promotion on connect success.  Each connect_cb returning false adds
\* exactly one to reconnects and leaves a channel with fewer than 5 counted
\* failures out of cooldown; a connect_cb returning true removes the channel
\* from the unconnected set, stores the same record in the connected set
\* under the same descriptor with read_time set to the current time, and
\* registers the descriptor for EPOLLIN only; every descriptor of the
\* connected set is registered for EPOLLIN.
C9_PromotionOnConnect ==
    /\ [](\A f \in DOMAIN _channels :
            f \in DOMAIN _epoll /\ _epoll[f] = {EPOLLIN})
    /\ [](\A f \in DOMAIN _unconnected :
            _unconnected[f].reconnects < COOLDOWN_RECONNECT_THRESHOLD
                => ~_unconnected[f].cooldown)
    /\ [][\A f \in Fds : ConnectVisit(f) =>
            LET obj == _unconnected[f]
            IN /\ Called("connect_cb", obj.opaque, "false")
                    => /\ f \in DOMAIN _unconnected'
                       /\ f \notin DOMAIN _channels'
                       /\ _unconnected'[f].reconnects = obj.reconnects + 1
               /\ Called("connect_cb", obj.opaque, "true")
                    => /\ f \notin DOMAIN _unconnected'
                       /\ f \in DOMAIN _channels'
                       /\ _channels'[f] = [obj EXCEPT !.read_time = clock,
                                                      !.cooldown = FALSE]
                       /\ f \in DOMAIN _epoll'
                       /\ _epoll'[f] = {EPOLLIN}]_vars

\* connect_cb failed 4 times and then succeeded at time 1: the channel is
\* connected, never was in cooldown, and read_time is the promotion time.
C9_Witness ==
    \E f \in DOMAIN _channels :
        /\ _channels[f].reconnects = COOLDOWN_RECONNECT_THRESHOLD - 1
        /\ _channels[f].cooldown_time = NoTime
        /\ _channels[f].read_time = 1
        /\ calls = <<Call("connect_cb", _channels[f].opaque, "true", 0)>>

\* C10: Cooperative stop.  Once stop() was called on a started listener the
\* request stays set until the loop thread has observed it at the top of the
\* loop and left run(): no step clears the flag while the thread runs, so no
\* further iteration is started.
C10_StopObserved ==
    [][(_quit /\ pc \notin {"new", "ended"}) => (_quit' \/ pc' = "ended")]_vars

\* C11: No lost hand-off.  A step that enqueues a register or an unregister
\* request touches neither _channels, _unconnected nor the readiness
\* registration, and these change only in steps of the loop thread; a request
\* waits unchanged in its queue until _update_channels runs; after
\* _update_channels every channel enqueued by register whose descriptor was
\* not unregistered is in the unconnected set with the record register
\* built, and every descriptor enqueued by unregister is a key of none of
\* the three dicts.
C11_NoLostHandOff ==
    /\ [][(\/ DOMAIN _add_channels' \ DOMAIN _add_channels # {}
           \/ Len(_del_channels') > Len(_del_channels))
          => /\ _channels' = _channels
             /\ _unconnected' = _unconnected
             /\ _epoll' = _epoll]_vars
    /\ [][(_channels' # _channels \/ _unconnected' # _unconnected
                                  \/ _epoll' # _epoll)
          => LoopStep /\ pc \in {"dispatch", "tsweep", "usweep"}]_vars
    /\ [][~UpdateStep
          => /\ \A f \in DOMAIN _add_channels \ Range(_del_channels) :
                   f \in DOMAIN _add_channels'
                   /\ _add_channels'[f] = _add_channels[f]
             /\ Len(_del_channels') >= Len(_del_channels)
             /\ SubSeq(_del_channels', 1, Len(_del_channels))
                    = _del_channels]_vars
    /\ [][UpdateStep
          => /\ \A f \in DOMAIN _add_channels \ Range(_del_channels) :
                   /\ f \in DOMAIN _unconnected' \cup DOMAIN _channels'
                   /\ f \in DOMAIN _unconnected'
                   /\ _unconnected'[f] = _add_channels[f]
             /\ \A f \in Range(_del_channels) :
                   f \notin DOMAIN _add_channels' \cup DOMAIN _unconnected'
                                \cup DOMAIN _channels'
             /\ _add_channels' = Empty
             /\ _del_channels' = <<>>]_vars

\* _update_channels has just promoted one registered channel and removed an
\* unconnected one that was unregistered (no channel ever connected, so no
\* other step removed it).
C11_Witness ==
    /\ pc = "timeouts"
    /\ _epoll = Empty
    /\ \E o, p \in Opaques :
          /\ life[o] = "promoted"
          /\ o \in OpaquesOf(_unconnected)
          /\ life[p] = "unregistered"
          /\ p \notin OpaquesOf(_unconnected) \cup OpaquesOf(_channels)

\* C12: Callback isolation.  A step in which read_cb, timeout_cb or
\* connect_cb raised leaves the loop thread in the same phase of the
\* iteration with the rest of the batch still to dispatch (the rest of the
\* sweep still to visit); the dispatch is left only when the batch is
\* exhausted and a sweep only when every channel of its snapshot was
\* visited; the thread ends only at the loop test or in the readiness wait.
C12_CallbackIsolation ==
    /\ [][(/\ LoopStep
           /\ \E i \in DOMAIN calls' :
                 /\ calls'[i].ret = "raise"
                 /\ calls'[i].cb \in {"read_cb", "timeout_cb", "connect_cb"})
          => /\ pc' = pc
             /\ pc = "dispatch" => events # <<>> /\ events' = Tail(events)
             /\ pc \in {"tsweep", "usweep"}
                   => \E f \in todo : todo' = todo \ {f}]_vars
    /\ [][(pc = "dispatch" /\ pc' # pc) => events = <<>>]_vars
    /\ [][(pc \in {"tsweep", "usweep"} /\ pc' # pc) => todo = {}]_vars
    /\ [][(pc' = "ended" /\ pc # "ended") => pc \in {"loop", "wait"}]_vars

\* read_cb has just raised and the batch holds another event, for another
\* connected channel.
C12_Witness ==
    /\ pc = "dispatch"
    /\ Len(calls) = 1
    /\ calls[1].cb = "read_cb"
    /\ calls[1].ret = "raise"
    /\ events # <<>>
    /\ Head(events)[1] \in DOMAIN _channels
    /\ _channels[Head(events)[1]].opaque # calls[1].opaque

\* C13: Applying pending mutations.  _update_channels stores every
\* pending-add entry into the unconnected set and then removes every
\* pending-delete descriptor: after it both queues are empty, an added
\* descriptor that was not unregistered is unconnected, and no descriptor of
\* the pending-delete list is a key of the pending-add map, the unconnected
\* set or the connected set, nor registered with the readiness wait.
C13_PendingApplied ==
    [][UpdateStep
       => /\ _add_channels' = Empty
          /\ _del_channels' = <<>>
          /\ \A f \in DOMAIN _add_channels \ Range(_del_channels) :
                f \in DOMAIN _unconnected' /\ _unconnected'[f] = _add_channels[f]
          /\ \A f \in Range(_del_channels) :
                /\ f \notin DOMAIN _add_channels'
                /\ f \notin DOMAIN _unconnected'
                /\ f \notin DOMAIN _channels'
                /\ f \notin DOMAIN _epoll']_vars

\* C14: Timeout callback failure still refreshes read_time.  When timeout_cb
\* raises in the timeout sweep, the sweep goes on, the channel stays
\* connected and its read_time is the sweep time.
C14_TimeoutRaiseRefreshes ==
    [][\A f \in Fds :
         (TimeoutVisit(f) /\ Called("timeout_cb", _channels[f].opaque, "raise"))
         => /\ pc' = "tsweep"
            /\ f \in DOMAIN _channels'
            /\ _channels'[f].read_time = now]_vars

\* C15: Exception from connect_cb counts as a connect failure.  When
\* connect_cb raises in the unconnected sweep the channel stays unconnected,
\* reconnects is incremented, and at 5 the channel is in cooldown from the
\* current time.
C15_ConnectRaiseCounts ==
    [][\A f \in Fds :
         (ConnectVisit(f) /\ Called("connect_cb", _unconnected[f].opaque, "raise"))
         => /\ f \in DOMAIN _unconnected'
            /\ f \notin DOMAIN _channels'
            /\ _unconnected'[f].reconnects = _unconnected[f].reconnects + 1
            /\ _unconnected[f].reconnects + 1 >= COOLDOWN_RECONNECT_THRESHOLD
                 => /\ _unconnected'[f].cooldown
                    /\ _unconnected'[f].cooldown_time = clock]_vars

\* C16: Reconnect counter semantics.  reconnects counts the failed connect
\* attempts since the last success: a successful connect and a successful
\* read leave it 0, so it is 0 for every connected channel and for a channel
\* that comes back to the unconnected set from the connected set; a failed
\* connect adds one; a channel enters cooldown only with 5 failures counted.
C16_ReconnectsSinceSuccess ==
    /\ [](\A f \in DOMAIN _channels : _channels[f].reconnects = 0)
    /\ [][\A f \in Fds : ConnectVisit(f) =>
            /\ Called("connect_cb", _unconnected[f].opaque, "true")
                 => f \in DOMAIN _channels' /\ _channels'[f].reconnects = 0
            /\ Called("connect_cb", _unconnected[f].opaque, "false")
                 => /\ f \in DOMAIN _unconnected'
                    /\ _unconnected'[f].reconnects
                          = _unconnected[f].reconnects + 1
                    /\ _unconnected'[f].cooldown
                          => _unconnected'[f].reconnects
                                >= COOLDOWN_RECONNECT_THRESHOLD]_vars
    /\ [][(DispatchStep /\ calls' # <<>>)
          => /\ (calls'[1].cb = "read_cb" /\ calls'[1].ret = "true")
                  => _channels'[Head(events)[1]].reconnects = 0
             /\ (calls'[Len(calls')].cb = "create_cb"
                 /\ calls'[Len(calls')].ret = "return")
                  => _unconnected'[calls'[Len(calls')].fd].reconnects = 0]_vars

\* C17: Timeout sweep.  The sweep is entered only from the test that follows
\* _update_channels, and exactly when a positive timeout is configured then;
\* it takes the sweep time and visits every connected channel; a visit
\* invokes timeout_cb (once, for that channel) exactly when the sweep time
\* minus read_time has reached the configured timeout, and then timeout_seen
\* is set; after a timeout_cb that returned, read_time is the sweep time; a
\* channel that has not reached the timeout is left as it is; timeout_cb is
\* invoked nowhere else.
C17_TimeoutSweep ==
    /\ [][(pc = "timeouts" /\ pc' # pc)
          => /\ pc' = "tsweep" <=> (_timeout.set /\ _timeout.val > 0)
             /\ pc' = "tsweep" => todo' = DOMAIN _channels /\ now' = clock
             /\ pc' # "tsweep" => pc' = "unconnected"]_vars
    /\ [][(pc' = "tsweep" /\ pc # "tsweep") => pc = "timeouts"]_vars
    /\ [][\A f \in Fds : TimeoutVisit(f) =>
            LET obj == _channels[f]
                reached == now - obj.read_time >= _timeout.val
            IN /\ _timeout.set
               /\ calls' # <<>> <=> reached
               /\ reached
                    => /\ Len(calls') = 1
                       /\ calls'[1].cb = "timeout_cb"
                       /\ calls'[1].opaque = obj.opaque
                       /\ _channels'[f].timeout_seen
                       /\ \A g \in DOMAIN _channels \ {f} :
                             _channels'[g] = _channels[g]
               /\ Called("timeout_cb", obj.opaque, "return")
                    => _channels'[f] = [obj EXCEPT !.timeout_seen = TRUE,
                                                   !.read_time = now]
               /\ ~reached => _channels' = _channels]_vars
    /\ [][(LoopStep /\ \E i \in DOMAIN calls' : calls'[i].cb = "timeout_cb")
          => pc = "tsweep"]_vars

\* The only connected channel was notified in an earlier sweep (timeout_seen
\* set, read_time the sweep time) and the sweep that has just visited it,
\* less than one timeout later, did not call timeout_cb.
C17_Witness ==
    /\ pc = "tsweep"
    /\ todo = {}
    /\ calls = <<>>
    /\ _timeout = SomeTimeout(1)
    /\ now = 1
    /\ Cardinality(DOMAIN _channels) = 1
    /\ \A f \in DOMAIN _channels :
          _channels[f].timeout_seen /\ _channels[f].read_time = 1

\* C18: Order of steps in an iteration.  The loop thread passes from the
\* readiness wait to the dispatch of the batch, from there (batch exhausted,
\* empty or not) to _update_channels, then to the timeout sweep if it is
\* enabled, then to the unconnected sweep, then back to the loop test; hence
\* a channel whose unregister was enqueued before _update_channels ran is in
\* no set after it, and once its unregister has been applied the loop thread
\* invokes neither timeout_cb nor connect_cb for it.
C18_IterationOrder ==
    /\ [][pc' # pc
          => <<pc, pc'>> \in {<<"new", "run">>, <<"run", "loop">>,
                              <<"loop", "wait">>, <<"loop", "ended">>,
                              <<"wait", "dispatch">>, <<"wait", "ended">>,
                              <<"dispatch", "timeouts">>,
                              <<"timeouts", "tsweep">>,
                              <<"timeouts", "unconnected">>,
                              <<"tsweep", "usweep">>,
                              <<"unconnected", "usweep">>,
                              <<"usweep", "loop">>}]_vars
    /\ [][(pc = "dispatch" /\ pc' # pc) => events = <<>>]_vars
    /\ [][(pc = "timeouts" /\ pc' = "unconnected")
          => ~(_timeout.set /\ _timeout.val > 0)]_vars
    /\ [][UpdateStep
          => \A o \in Opaques :
               life[o] = "unregistered"
               => o \notin OpaquesOf(_channels') \cup OpaquesOf(_unconnected')]_vars
    /\ [][\A o \in Opaques :
            (life[o] = "unregistered" /\ _del_channels = <<>> /\ LoopStep)
            => \A i \in DOMAIN calls' :
                 calls'[i].opaque = o
                 => calls'[i].cb \notin {"timeout_cb", "connect_cb"}]_vars

\* C19: Readiness-wait errors.  In NoIntrPoll, pollfun is called again only
\* after it was interrupted (EINTR), and after an interruption it always is:
\* the interruption never reaches the caller; with a negative timeout every
\* call of pollfun gets that same timeout; any other error leaves NoIntrPoll
\* at once, with no further call of pollfun.
C19_RetryOnlyOnEINTR ==
    /\ [][(np_pc = "poll" /\ np_pc' # np_pc)
          => /\ np_pc' \in {"returned", "sleep", "raised"}
             /\ np_passed' = np_timeout]_vars
    /\ [][(np_pc' = "poll" /\ np_pc # "poll") => np_pc \in {"idle", "sleep"}]_vars
    /\ [][np_pc = "sleep" => np_pc' \in {"sleep", "poll"}]_vars
    /\ [][(np_pc = "raised" \/ np_pc = "returned")
          => np_pc' \in {np_pc, "idle"}]_vars
    /\ []((np_arg < 0 /\ np_pc \in {"poll", "sleep"}) => np_timeout = np_arg)
    /\ []((np_arg < 0 /\ np_pc \in {"sleep", "returned", "raised"})
            => np_passed = np_arg)

\* NoIntrPoll, called with a negative timeout, was interrupted, yielded, and
\* is about to call pollfun again with the same timeout.
C19_Witness ==
    /\ np_pc = "poll"
    /\ np_arg < 0
    /\ clock > np_start
    /\ np_passed = np_arg
    /\ np_timeout = np_arg

\* C19, in the listener: an error of the readiness wait ends the loop
\* thread, and once the thread has ended it stays ended, invokes no callback
\* and changes no set (checked under Spec).
C19_ErrorEndsThread ==
    /\ [][(pc = "wait" /\ pc' # pc) => pc' \in {"dispatch", "ended"}]_vars
    /\ [][pc = "ended"
          => /\ pc' = "ended"
             /\ calls' = calls
             /\ _channels' = _channels
             /\ _unconnected' = _unconnected
             /\ _epoll' = _epoll]_vars

\* The readiness wait failed while a channel was connected: the thread has
\* ended without the stop flag.
C19_EndedWitness ==
    /\ pc = "ended"
    /\ ~_quit
    /\ _channels # Empty

\* C20: Callbacks match channel state.  The loop thread invokes read_cb only
\* when dispatching an event for a descriptor of the connected set, for the
\* channel stored there; create_cb only as the last call of such a dispatch,
\* in which the channel leaves the connected set (for the unconnected set,
\* under the descriptor create_cb returned); timeout_cb only in the timeout
\* sweep for a channel of the connected set; connect_cb only in the
\* unconnected sweep, for a channel of the unconnected set whose cooldown
\* flag is clear at the call (a channel in cooldown is called only once its
\* cooldown is over, the flag being cleared first).  The unconnected sweep
\* visits every channel of the unconnected set once, and the visit of a
\* channel not in cooldown makes exactly one connect_cb call.
C20_CallbacksMatchState ==
    /\ [][(LoopStep /\ calls' # <<>>)
          => \A i \in DOMAIN calls' :
               /\ calls'[i].cb \in {"read_cb", "create_cb"} => pc = "dispatch"
               /\ calls'[i].cb = "timeout_cb" => pc = "tsweep"
               /\ calls'[i].cb = "connect_cb" => pc = "usweep"]_vars
    /\ [][(DispatchStep /\ calls' # <<>>)
          => LET f == Head(events)[1]
             IN /\ f \in DOMAIN _channels
                /\ \A i \in DOMAIN calls' :
                      /\ calls'[i].opaque = _channels[f].opaque
                      /\ calls'[i].cb = "read_cb" => i = 1
                      /\ calls'[i].cb = "create_cb"
                           => /\ i = Len(calls')
                              /\ f \notin DOMAIN _channels'
                              /\ calls'[i].ret = "return"
                                   => /\ calls'[i].fd \in DOMAIN _unconnected'
                                      /\ _unconnected'[calls'[i].fd].opaque
                                            = _channels[f].opaque]_vars
    /\ [][\A f \in Fds : (TimeoutVisit(f) /\ calls' # <<>>)
          => /\ f \in DOMAIN _channels
             /\ Len(calls') = 1
             /\ calls'[1].cb = "timeout_cb"
             /\ calls'[1].opaque = _channels[f].opaque
             /\ f \in DOMAIN _channels']_vars
    /\ [][\A f \in Fds : ConnectVisit(f)
          => /\ f \in DOMAIN _unconnected
             /\ LET obj == _unconnected[f]
                IN /\ ~obj.cooldown => calls' # <<>>
                   /\ calls' # <<>>
                        => /\ Len(calls') = 1
                           /\ calls'[1].cb = "connect_cb"
                           /\ calls'[1].opaque = obj.opaque
                           /\ obj.cooldown
                                => (_timeout.set
                                    => now - obj.cooldown_time >= _timeout.val)
                           /\ calls'[1].ret = "raise"
                                => ~_unconnected'[f].cooldown
                           /\ calls'[1].ret = "true"
                                => ~_channels'[f].cooldown]_vars
    /\ [][(pc' = "usweep" /\ pc # "usweep")
          => todo' = DOMAIN _unconnected']_vars
    /\ [](pc = "usweep" => todo \subseteq DOMAIN _unconnected)
    /\ [](pc = "tsweep" => todo \subseteq DOMAIN _channels)
    /\ [][(pc = "usweep" /\ LoopStep)
          => \/ pc' = "usweep" /\ \E f \in todo : todo' = todo \ {f}
             \/ pc' = "loop" /\ todo = {}]_vars

\* The unconnected sweep has called connect_cb for one channel and still has
\* the other unconnected channel to visit.
C20_Witness ==
    /\ pc = "usweep"
    /\ Len(calls) = 1
    /\ calls[1].cb = "connect_cb"
    /\ calls[1].ret = "false"
    /\ calls[1].opaque \in OpaquesOf(_unconnected)
    /\ \E g \in todo : _unconnected[g].opaque # calls[1].opaque

====
